---------------------------- MODULE Spec2Model ----------------------------
(***************************************************************************)
(* The RegulatoryCheck contract of the compliance engine                   *)
(* (stellar-core/compliance-engine/contracts/regulatory_checks/src/lib.rs) *)
(* as a state machine.  The state is the contract's storage (instance and  *)
(* persistent entries) together with the ledger time; there is one action  *)
(* per contract function.  Every invocation is one atomic step: a call     *)
(* that returns Err or panics leaves the storage as it was.                *)
(***************************************************************************)
EXTENDS Integers, Sequences, FiniteSets, TLC

(***************************************************************************)
(* Option<T>: None is the empty tuple, Some(v) the one-element tuple.      *)
(***************************************************************************)
None == << >>
Some(v) == << v >>
is_none(o) == o = None
is_some(o) == o # None
unwrap(o) == o[1]
unwrap_or(o, d) == IF o = None THEN d ELSE o[1]

(***************************************************************************)
(* Input universes.                                                        *)
(***************************************************************************)
Addresses == {"a1", "a2"}
Contracts == {"carbon"}
RuleIds == {"r1", "r2", "r3"}
ANY == "ANY"
Labels == {"US", "EU"}
RuleLabels == Labels \cup {ANY}
OperationType == {"TRANSFER", "RETIREMENT"}
ApprovalKeys == {"k1", "k2"}
TokenIds == {7}

\* The approval window of record_authorization and check_approval (7 days).
ApprovalWindow == 604800

\* Number of times the ledger clock is advanced in a behaviour.
MaxTicks == 3
\* The amounts by which the ledger clock advances.
TimeSteps == {1, 100, ApprovalWindow}

ContractError ==
    {"NotAuthorized", "RuleNotFound", "RuleAlreadyExists", "JurisdictionNotSet",
     "InvalidApprovalKey", "ApprovalExpired", "NoMatchingRule"}
Ok == "Ok"
\* A host trap: unwrap() of an absent entry aborts the invocation.
Panic == "Panic"

JurisdictionRule ==
    [rule_id : RuleIds, description : {"d"}, source_jur : RuleLabels,
     dest_jur : RuleLabels, host_jur : RuleLabels, operation : OperationType,
     is_allowed : BOOLEAN, required_authority : {None} \cup {Some(a) : a \in Addresses}]

VARIABLES
    Admin,                \* DataKey::Admin               : Option<Address>
    Governance,           \* DataKey::Governance          : Option<Address>
    CarbonAssetContract,  \* DataKey::CarbonAssetContract : Option<Address>
    Rule,                 \* DataKey::Rule(id)            : Option<JurisdictionRule>
    ActiveRuleIds,        \* DataKey::ActiveRuleIds       : Option<Vec<String>>
    AddressJurisdiction,  \* DataKey::AddressJurisdiction(a) : Option<String>
    PendingApproval,      \* DataKey::PendingApproval(k)  : Option<PendingApproval>
    ledger_timestamp,     \* env.ledger().timestamp()
    ticks,                \* how often the ledger clock has advanced
    ret                   \* the last invocation: function, arguments, return value

storage == <<Admin, Governance, CarbonAssetContract, Rule, ActiveRuleIds,
             AddressJurisdiction, PendingApproval>>
vars == <<Admin, Governance, CarbonAssetContract, Rule, ActiveRuleIds,
          AddressJurisdiction, PendingApproval, ledger_timestamp, ticks, ret>>

Returned(op, args, result) == ret' = [op |-> op, args |-> args, result |-> result]

(***************************************************************************)
(* Helper functions                                                        *)
(***************************************************************************)
\* A matcher that forgets the host jurisdiction.
rule_matches_no_host(rule, source_jur, dest_jur, host_jur, operation) ==
    IF rule.operation # operation THEN FALSE
    ELSE IF rule.source_jur # "ANY" /\ rule.source_jur # source_jur THEN FALSE
    ELSE IF rule.dest_jur # "ANY" /\ rule.dest_jur # dest_jur THEN FALSE
    ELSE TRUE

rule_matches(rule, source_jur, dest_jur, host_jur, operation) ==
    IF rule.operation # operation THEN FALSE
    ELSE IF rule.source_jur # ANY /\ rule.source_jur # source_jur THEN FALSE
    ELSE IF rule.dest_jur # ANY /\ rule.dest_jur # dest_jur THEN FALSE
    ELSE IF rule.host_jur # ANY /\ rule.host_jur # host_jur THEN FALSE
    ELSE TRUE

get_address_jurisdiction(account) == AddressJurisdiction[account]

get_rule(rule_id) == Rule[rule_id]

get_active_rules == unwrap_or(ActiveRuleIds, << >>)

(***************************************************************************)
(* Compliance validation                                                   *)
(***************************************************************************)
ValidationResult(is_compliant, rule_id, requires_authorization, authority_address, error_message) ==
    [is_compliant |-> is_compliant, rule_id |-> rule_id,
     requires_authorization |-> requires_authorization,
     authority_address |-> authority_address, error_message |-> error_message]

\* A verdict that forwards the authority of any rule that names one.
matched_verdict_leak(rule) ==
    [is_compliant |-> rule.is_allowed, rule_id |-> Some(rule.rule_id),
     requires_authorization |-> is_some(rule.required_authority),
     authority_address |-> rule.required_authority,
     error_message |-> IF rule.is_allowed THEN None
                       ELSE Some("Transaction prohibited by rule")]

\* The verdict of a rule that matched.
matched_verdict(rule) ==
    IF rule.is_allowed
    THEN IF is_some(rule.required_authority)
         THEN ValidationResult(TRUE, Some(rule.rule_id), TRUE,
                               Some(unwrap(rule.required_authority)), None)
         ELSE ValidationResult(TRUE, Some(rule.rule_id), FALSE, None, None)
    ELSE ValidationResult(FALSE, Some(rule.rule_id), FALSE, None,
                          Some("Transaction prohibited by rule"))

\* A loop that allows what no rule matches.
RECURSIVE find_matching_rule_default_allow(_, _, _, _, _, _)
find_matching_rule_default_allow(active_rules, i, source_jur, dest_jur, host_jurisdiction, operation) ==
    IF i > Len(active_rules)
    THEN ValidationResult(TRUE, None, FALSE, None, None)
    ELSE LET rule == Rule[active_rules[i]]
         IN  IF is_some(rule)
                /\ rule_matches(unwrap(rule), source_jur, dest_jur,
                                host_jurisdiction, operation)
             THEN matched_verdict(unwrap(rule))
             ELSE find_matching_rule_default_allow(active_rules, i + 1, source_jur,
                                                   dest_jur, host_jurisdiction, operation)

\* A loop that does not stop at the first match: a later match overrides.
RECURSIVE find_matching_rule_last(_, _, _, _, _, _)
find_matching_rule_last(active_rules, i, source_jur, dest_jur, host_jurisdiction, operation) ==
    IF i > Len(active_rules)
    THEN ValidationResult(FALSE, None, FALSE, None, Some("No matching rule found"))
    ELSE LET rule == Rule[active_rules[i]]
             later == find_matching_rule_last(active_rules, i + 1, source_jur, dest_jur,
                                              host_jurisdiction, operation)
         IN  IF is_some(later.rule_id) THEN later
             ELSE IF is_some(rule)
                     /\ rule_matches(unwrap(rule), source_jur, dest_jur,
                                     host_jurisdiction, operation)
             THEN matched_verdict(unwrap(rule))
             ELSE later

\* The loop over the active rules, from index i on.
RECURSIVE find_matching_rule(_, _, _, _, _, _)
find_matching_rule(active_rules, i, source_jur, dest_jur, host_jurisdiction, operation) ==
    IF i > Len(active_rules)
    THEN ValidationResult(FALSE, None, FALSE, None, Some("No matching rule found"))
    ELSE LET rule == Rule[active_rules[i]]
         IN  IF is_some(rule)
                /\ rule_matches(unwrap(rule), source_jur, dest_jur,
                                host_jurisdiction, operation)
             THEN matched_verdict(unwrap(rule))
             ELSE find_matching_rule(active_rules, i + 1, source_jur, dest_jur,
                                     host_jurisdiction, operation)

\* A check that gives up only when both jurisdictions are missing; a missing
\* one is then compared as the empty label.
validate_transaction_both_unset(source_address, destination_address, operation, host_jurisdiction) ==
    LET source_jur == get_address_jurisdiction(source_address)
        dest_jur == get_address_jurisdiction(destination_address)
    IN  IF is_none(source_jur) /\ is_none(dest_jur)
        THEN ValidationResult(FALSE, None, FALSE, None,
                              Some("Jurisdiction not set for address"))
        ELSE find_matching_rule(unwrap_or(ActiveRuleIds, << >>), 1,
                                unwrap_or(source_jur, ""), unwrap_or(dest_jur, ""),
                                host_jurisdiction, operation)

validate_transaction(source_address, destination_address, operation, host_jurisdiction) ==
    LET source_jur == get_address_jurisdiction(source_address)
        dest_jur == get_address_jurisdiction(destination_address)
    IN  IF is_none(source_jur) \/ is_none(dest_jur)
        THEN ValidationResult(FALSE, None, FALSE, None,
                              Some("Jurisdiction not set for address"))
        ELSE find_matching_rule(unwrap_or(ActiveRuleIds, << >>), 1, unwrap(source_jur),
                                unwrap(dest_jur), host_jurisdiction, operation)

(***************************************************************************)
(* Authority approval                                                      *)
(***************************************************************************)
\* An expiry test that already fails at the last second of the window.
approval_expired_inclusive(pending, current_time) ==
    current_time >= pending.timestamp + ApprovalWindow

\* An expiry test that never fails.
approval_never_expired(pending, current_time) == FALSE

\* current_time > pending.timestamp + 604800.  Ledger timestamps are seconds
\* since 1970, far below 2^64 - 604800: the u64 sum does not overflow.
approval_expired(pending, current_time) ==
    current_time > pending.timestamp + ApprovalWindow

\* A validity test that excludes the last second of the window.
check_approval_strict(approval_key) ==
    LET pending == PendingApproval[approval_key]
    IN  IF is_some(pending)
        THEN unwrap(pending).approved
             /\ ledger_timestamp < unwrap(pending).timestamp + ApprovalWindow
        ELSE FALSE

check_approval(approval_key) ==
    LET pending == PendingApproval[approval_key]
    IN  IF is_some(pending)
        THEN unwrap(pending).approved
             /\ ledger_timestamp <= unwrap(pending).timestamp + ApprovalWindow
        ELSE FALSE

(***************************************************************************)
(* The initial state: the contract is deployed, its storage is empty.      *)
(***************************************************************************)
Init ==
    /\ Admin = None
    /\ Governance = None
    /\ CarbonAssetContract = None
    /\ Rule = [id \in RuleIds |-> None]
    /\ ActiveRuleIds = None
    /\ AddressJurisdiction = [a \in Addresses |-> None]
    /\ PendingApproval = [k \in ApprovalKeys |-> None]
    /\ ledger_timestamp = 0
    /\ ticks = 0
    /\ ret = [op |-> "deploy", args |-> << >>, result |-> Ok]

(***************************************************************************)
(* Contract functions.  X.require_auth() makes X the invoker: the argument *)
(* so marked ranges over the addresses that sign the invocation.           *)
(***************************************************************************)
initialize(admin, governance, carbon_asset_contract) ==
    /\ Admin' = Some(admin)
    /\ Governance' = Some(governance)
    /\ CarbonAssetContract' = Some(carbon_asset_contract)
    /\ ActiveRuleIds' = Some(<< >>)
    /\ Returned("initialize", <<admin, governance, carbon_asset_contract>>, Ok)
    /\ UNCHANGED <<Rule, AddressJurisdiction, PendingApproval, ledger_timestamp, ticks>>

\* An add_rule that puts the new id at the front of the list.
add_rule_prepend(caller, rule) ==
    IF is_none(Governance)
    THEN /\ Returned("add_rule", <<caller, rule>>, Panic)
         /\ UNCHANGED <<storage, ledger_timestamp, ticks>>
    ELSE IF caller # unwrap(Governance)
    THEN /\ Returned("add_rule", <<caller, rule>>, "NotAuthorized")
         /\ UNCHANGED <<storage, ledger_timestamp, ticks>>
    ELSE IF is_some(Rule[rule.rule_id])
    THEN /\ Returned("add_rule", <<caller, rule>>, "RuleAlreadyExists")
         /\ UNCHANGED <<storage, ledger_timestamp, ticks>>
    ELSE /\ Rule' = [Rule EXCEPT ![rule.rule_id] = Some(rule)]
         /\ ActiveRuleIds' = Some(<<rule.rule_id>> \o unwrap_or(ActiveRuleIds, << >>))
         /\ Returned("add_rule", <<caller, rule>>, Ok)
         /\ UNCHANGED <<Admin, Governance, CarbonAssetContract, AddressJurisdiction,
                        PendingApproval, ledger_timestamp, ticks>>

add_rule(caller, rule) ==
    IF is_none(Governance)
    THEN /\ Returned("add_rule", <<caller, rule>>, Panic)
         /\ UNCHANGED <<storage, ledger_timestamp, ticks>>
    ELSE IF caller # unwrap(Governance)
    THEN /\ Returned("add_rule", <<caller, rule>>, "NotAuthorized")
         /\ UNCHANGED <<storage, ledger_timestamp, ticks>>
    ELSE IF is_some(Rule[rule.rule_id])
    THEN /\ Returned("add_rule", <<caller, rule>>, "RuleAlreadyExists")
         /\ UNCHANGED <<storage, ledger_timestamp, ticks>>
    ELSE /\ Rule' = [Rule EXCEPT ![rule.rule_id] = Some(rule)]
         /\ ActiveRuleIds' = Some(Append(unwrap_or(ActiveRuleIds, << >>), rule.rule_id))
         /\ Returned("add_rule", <<caller, rule>>, Ok)
         /\ UNCHANGED <<Admin, Governance, CarbonAssetContract, AddressJurisdiction,
                        PendingApproval, ledger_timestamp, ticks>>

\* An update_rule that also moves the id to the end of the list.
update_rule_reappend(caller, rule) ==
    IF is_none(Governance)
    THEN /\ Returned("update_rule", <<caller, rule>>, Panic)
         /\ UNCHANGED <<storage, ledger_timestamp, ticks>>
    ELSE IF caller # unwrap(Governance)
    THEN /\ Returned("update_rule", <<caller, rule>>, "NotAuthorized")
         /\ UNCHANGED <<storage, ledger_timestamp, ticks>>
    ELSE IF ~is_some(Rule[rule.rule_id])
    THEN /\ Returned("update_rule", <<caller, rule>>, "RuleNotFound")
         /\ UNCHANGED <<storage, ledger_timestamp, ticks>>
    ELSE /\ Rule' = [Rule EXCEPT ![rule.rule_id] = Some(rule)]
         /\ ActiveRuleIds' =
                Some(Append(SelectSeq(unwrap_or(ActiveRuleIds, << >>),
                                      LAMBDA x : x # rule.rule_id), rule.rule_id))
         /\ Returned("update_rule", <<caller, rule>>, Ok)
         /\ UNCHANGED <<Admin, Governance, CarbonAssetContract, AddressJurisdiction,
                        PendingApproval, ledger_timestamp, ticks>>

update_rule(caller, rule) ==
    IF is_none(Governance)
    THEN /\ Returned("update_rule", <<caller, rule>>, Panic)
         /\ UNCHANGED <<storage, ledger_timestamp, ticks>>
    ELSE IF caller # unwrap(Governance)
    THEN /\ Returned("update_rule", <<caller, rule>>, "NotAuthorized")
         /\ UNCHANGED <<storage, ledger_timestamp, ticks>>
    ELSE IF ~is_some(Rule[rule.rule_id])
    THEN /\ Returned("update_rule", <<caller, rule>>, "RuleNotFound")
         /\ UNCHANGED <<storage, ledger_timestamp, ticks>>
    ELSE /\ Rule' = [Rule EXCEPT ![rule.rule_id] = Some(rule)]
         /\ Returned("update_rule", <<caller, rule>>, Ok)
         /\ UNCHANGED <<Admin, Governance, CarbonAssetContract, ActiveRuleIds,
                        AddressJurisdiction, PendingApproval, ledger_timestamp, ticks>>

\* The rebuilt list: every id of active_rules other than rule_id, in order.
RECURSIVE filter_rule_ids(_, _)
filter_rule_ids(active_rules, rule_id) ==
    IF active_rules = << >> THEN << >>
    ELSE IF Head(active_rules) # rule_id
    THEN <<Head(active_rules)>> \o filter_rule_ids(Tail(active_rules), rule_id)
    ELSE filter_rule_ids(Tail(active_rules), rule_id)

\* A deactivation that takes the id off the list but leaves the rule stored.
deactivate_rule_keep_stored(caller, rule_id) ==
    IF is_none(Governance)
    THEN /\ Returned("deactivate_rule", <<caller, rule_id>>, Panic)
         /\ UNCHANGED <<storage, ledger_timestamp, ticks>>
    ELSE IF caller # unwrap(Governance)
    THEN /\ Returned("deactivate_rule", <<caller, rule_id>>, "NotAuthorized")
         /\ UNCHANGED <<storage, ledger_timestamp, ticks>>
    ELSE IF ~is_some(Rule[rule_id])
    THEN /\ Returned("deactivate_rule", <<caller, rule_id>>, "RuleNotFound")
         /\ UNCHANGED <<storage, ledger_timestamp, ticks>>
    ELSE IF is_none(ActiveRuleIds)
    THEN /\ Returned("deactivate_rule", <<caller, rule_id>>, Panic)
         /\ UNCHANGED <<storage, ledger_timestamp, ticks>>
    ELSE /\ ActiveRuleIds' = Some(filter_rule_ids(unwrap(ActiveRuleIds), rule_id))
         /\ Returned("deactivate_rule", <<caller, rule_id>>, Ok)
         /\ UNCHANGED <<Admin, Governance, CarbonAssetContract, Rule, AddressJurisdiction,
                        PendingApproval, ledger_timestamp, ticks>>

\* A deactivation that removes the stored rule but leaves its id on the list.
deactivate_rule_keep_listed(caller, rule_id) ==
    IF is_none(Governance)
    THEN /\ Returned("deactivate_rule", <<caller, rule_id>>, Panic)
         /\ UNCHANGED <<storage, ledger_timestamp, ticks>>
    ELSE IF caller # unwrap(Governance)
    THEN /\ Returned("deactivate_rule", <<caller, rule_id>>, "NotAuthorized")
         /\ UNCHANGED <<storage, ledger_timestamp, ticks>>
    ELSE IF ~is_some(Rule[rule_id])
    THEN /\ Returned("deactivate_rule", <<caller, rule_id>>, "RuleNotFound")
         /\ UNCHANGED <<storage, ledger_timestamp, ticks>>
    ELSE IF is_none(ActiveRuleIds)
    THEN /\ Returned("deactivate_rule", <<caller, rule_id>>, Panic)
         /\ UNCHANGED <<storage, ledger_timestamp, ticks>>
    ELSE /\ Rule' = [Rule EXCEPT ![rule_id] = None]
         /\ Returned("deactivate_rule", <<caller, rule_id>>, Ok)
         /\ UNCHANGED <<Admin, Governance, CarbonAssetContract, ActiveRuleIds,
                        AddressJurisdiction, PendingApproval, ledger_timestamp, ticks>>

deactivate_rule(caller, rule_id) ==
    IF is_none(Governance)
    THEN /\ Returned("deactivate_rule", <<caller, rule_id>>, Panic)
         /\ UNCHANGED <<storage, ledger_timestamp, ticks>>
    ELSE IF caller # unwrap(Governance)
    THEN /\ Returned("deactivate_rule", <<caller, rule_id>>, "NotAuthorized")
         /\ UNCHANGED <<storage, ledger_timestamp, ticks>>
    ELSE IF ~is_some(Rule[rule_id])
    THEN /\ Returned("deactivate_rule", <<caller, rule_id>>, "RuleNotFound")
         /\ UNCHANGED <<storage, ledger_timestamp, ticks>>
    ELSE IF is_none(ActiveRuleIds)
    THEN /\ Returned("deactivate_rule", <<caller, rule_id>>, Panic)
         /\ UNCHANGED <<storage, ledger_timestamp, ticks>>
    ELSE /\ Rule' = [Rule EXCEPT ![rule_id] = None]
         /\ ActiveRuleIds' = Some(filter_rule_ids(unwrap(ActiveRuleIds), rule_id))
         /\ Returned("deactivate_rule", <<caller, rule_id>>, Ok)
         /\ UNCHANGED <<Admin, Governance, CarbonAssetContract, AddressJurisdiction,
                        PendingApproval, ledger_timestamp, ticks>>

set_address_jurisdiction(caller, account, jurisdiction) ==
    IF is_none(Admin)
    THEN /\ Returned("set_address_jurisdiction", <<caller, account, jurisdiction>>, Panic)
         /\ UNCHANGED <<storage, ledger_timestamp, ticks>>
    ELSE IF caller # unwrap(Admin)
    THEN /\ Returned("set_address_jurisdiction", <<caller, account, jurisdiction>>,
                     "NotAuthorized")
         /\ UNCHANGED <<storage, ledger_timestamp, ticks>>
    ELSE /\ AddressJurisdiction' = [AddressJurisdiction EXCEPT ![account] = Some(jurisdiction)]
         /\ Returned("set_address_jurisdiction", <<caller, account, jurisdiction>>, Ok)
         /\ UNCHANGED <<Admin, Governance, CarbonAssetContract, Rule, ActiveRuleIds,
                        PendingApproval, ledger_timestamp, ticks>>


\* An authorization that sets the flag before it looks at the window.
record_authorization_mark_first(authority, approval_key) ==
    LET stored == PendingApproval[approval_key]
    IN  IF is_none(stored)
        THEN /\ Returned("record_authorization", <<authority, approval_key>>,
                         "InvalidApprovalKey")
             /\ UNCHANGED <<storage, ledger_timestamp, ticks>>
        ELSE /\ PendingApproval' =
                    [PendingApproval EXCEPT
                        ![approval_key] = Some([unwrap(stored) EXCEPT !.approved = TRUE])]
             /\ Returned("record_authorization", <<authority, approval_key>>,
                         IF approval_expired(unwrap(stored), ledger_timestamp)
                         THEN "ApprovalExpired" ELSE Ok)
             /\ UNCHANGED <<Admin, Governance, CarbonAssetContract, Rule, ActiveRuleIds,
                            AddressJurisdiction, ledger_timestamp, ticks>>

record_authorization(authority, approval_key) ==
    LET stored == PendingApproval[approval_key]
    IN  IF is_none(stored)
        THEN /\ Returned("record_authorization", <<authority, approval_key>>,
                         "InvalidApprovalKey")
             /\ UNCHANGED <<storage, ledger_timestamp, ticks>>
        ELSE IF approval_expired(unwrap(stored), ledger_timestamp)
        THEN /\ Returned("record_authorization", <<authority, approval_key>>,
                         "ApprovalExpired")
             /\ UNCHANGED <<storage, ledger_timestamp, ticks>>
        ELSE /\ PendingApproval' =
                    [PendingApproval EXCEPT
                        ![approval_key] = Some([unwrap(stored) EXCEPT !.approved = TRUE])]
             /\ Returned("record_authorization", <<authority, approval_key>>, Ok)
             /\ UNCHANGED <<Admin, Governance, CarbonAssetContract, Rule, ActiveRuleIds,
                            AddressJurisdiction, ledger_timestamp, ticks>>

\* A creation that keeps the approved flag of a record already stored.
create_pending_approval_keep_flag(approval_key, token_id, source, destination, operation) ==
    LET stored == PendingApproval[approval_key]
        pending == [token_id |-> token_id, source |-> source,
                    destination |-> destination, operation |-> operation,
                    timestamp |-> ledger_timestamp,
                    approved |-> IF is_some(stored) THEN unwrap(stored).approved ELSE FALSE]
    IN  /\ PendingApproval' = [PendingApproval EXCEPT ![approval_key] = Some(pending)]
        /\ Returned("create_pending_approval",
                    <<approval_key, token_id, source, destination, operation>>, Ok)
        /\ UNCHANGED <<Admin, Governance, CarbonAssetContract, Rule, ActiveRuleIds,
                       AddressJurisdiction, ledger_timestamp, ticks>>

create_pending_approval(approval_key, token_id, source, destination, operation) ==
    LET pending == [token_id |-> token_id, source |-> source,
                    destination |-> destination, operation |-> operation,
                    timestamp |-> ledger_timestamp, approved |-> FALSE]
    IN  /\ PendingApproval' = [PendingApproval EXCEPT ![approval_key] = Some(pending)]
        /\ Returned("create_pending_approval",
                    <<approval_key, token_id, source, destination, operation>>, Ok)
        /\ UNCHANGED <<Admin, Governance, CarbonAssetContract, Rule, ActiveRuleIds,
                       AddressJurisdiction, ledger_timestamp, ticks>>

update_admin(caller, new_admin) ==
    IF is_none(Admin)
    THEN /\ Returned("update_admin", <<caller, new_admin>>, Panic)
         /\ UNCHANGED <<storage, ledger_timestamp, ticks>>
    ELSE IF caller # unwrap(Admin)
    THEN /\ Returned("update_admin", <<caller, new_admin>>, "NotAuthorized")
         /\ UNCHANGED <<storage, ledger_timestamp, ticks>>
    ELSE /\ Admin' = Some(new_admin)
         /\ Returned("update_admin", <<caller, new_admin>>, Ok)
         /\ UNCHANGED <<Governance, CarbonAssetContract, Rule, ActiveRuleIds,
                        AddressJurisdiction, PendingApproval, ledger_timestamp, ticks>>

update_governance(caller, new_governance) ==
    IF is_none(Governance)
    THEN /\ Returned("update_governance", <<caller, new_governance>>, Panic)
         /\ UNCHANGED <<storage, ledger_timestamp, ticks>>
    ELSE IF caller # unwrap(Governance)
    THEN /\ Returned("update_governance", <<caller, new_governance>>, "NotAuthorized")
         /\ UNCHANGED <<storage, ledger_timestamp, ticks>>
    ELSE /\ Governance' = Some(new_governance)
         /\ Returned("update_governance", <<caller, new_governance>>, Ok)
         /\ UNCHANGED <<Admin, CarbonAssetContract, Rule, ActiveRuleIds,
                        AddressJurisdiction, PendingApproval, ledger_timestamp, ticks>>

(***************************************************************************)
(* Invocations of the read-only functions: the return value is recorded.   *)
(***************************************************************************)
call_validate_transaction(source_address, destination_address, operation, host_jurisdiction) ==
    /\ Returned("validate_transaction",
                <<source_address, destination_address, operation, host_jurisdiction>>,
                validate_transaction(source_address, destination_address, operation,
                                     host_jurisdiction))
    /\ UNCHANGED <<storage, ledger_timestamp, ticks>>

\* A check that writes the expiry back: an expired record is removed.
call_check_approval_writeback(approval_key) ==
    /\ Returned("check_approval", <<approval_key>>, check_approval(approval_key))
    /\ PendingApproval' =
           [PendingApproval EXCEPT
               ![approval_key] =
                   IF is_some(@) /\ approval_expired(unwrap(@), ledger_timestamp)
                   THEN None ELSE @]
    /\ UNCHANGED <<Admin, Governance, CarbonAssetContract, Rule, ActiveRuleIds,
                   AddressJurisdiction, ledger_timestamp, ticks>>

call_check_approval(approval_key) ==
    /\ Returned("check_approval", <<approval_key>>, check_approval(approval_key))
    /\ UNCHANGED <<storage, ledger_timestamp, ticks>>

call_get_address_jurisdiction(account) ==
    /\ Returned("get_address_jurisdiction", <<account>>, get_address_jurisdiction(account))
    /\ UNCHANGED <<storage, ledger_timestamp, ticks>>

call_get_rule(rule_id) ==
    /\ Returned("get_rule", <<rule_id>>, get_rule(rule_id))
    /\ UNCHANGED <<storage, ledger_timestamp, ticks>>

call_get_active_rules ==
    /\ Returned("get_active_rules", << >>, get_active_rules)
    /\ UNCHANGED <<storage, ledger_timestamp, ticks>>

(***************************************************************************)
(* The ledger closes: its timestamp moves forward.                         *)
(***************************************************************************)
advance_ledger(d) ==
    /\ ticks < MaxTicks
    /\ ledger_timestamp' = ledger_timestamp + d
    /\ ticks' = ticks + 1
    /\ Returned("advance_ledger", <<d>>, Ok)
    /\ UNCHANGED storage


(***************************************************************************)
(* Spec: the whole contract, every function, over small inputs: one rule   *)
(* id, one jurisdiction label, one approval key.                           *)
(***************************************************************************)
SmallRules ==
    {r \in JurisdictionRule :
        /\ r.rule_id = "r1"
        /\ r.operation = "TRANSFER"
        /\ r.source_jur = ANY /\ r.dest_jur = ANY /\ r.host_jur = ANY
        /\ r.required_authority = None}
SmallLabels == {"US"}
SmallSteps == {1, ApprovalWindow}

Next ==
    \/ \E admin \in Addresses, governance \in Addresses, c \in Contracts :
         initialize(admin, governance, c)
    \/ \E caller \in Addresses, rule \in SmallRules : add_rule(caller, rule)
    \/ \E caller \in Addresses, rule \in SmallRules : update_rule(caller, rule)
    \/ \E caller \in Addresses : deactivate_rule(caller, "r1")
    \/ \E caller \in Addresses, account \in Addresses, j \in SmallLabels :
         set_address_jurisdiction(caller, account, j)
    \/ \E caller \in Addresses, new_admin \in Addresses : update_admin(caller, new_admin)
    \/ \E caller \in Addresses, new_governance \in Addresses :
         update_governance(caller, new_governance)
    \/ \E authority \in Addresses : record_authorization(authority, "k1")
    \/ \E t \in TokenIds : create_pending_approval("k1", t, "a1", "a2", "TRANSFER")
    \/ \E s \in Addresses, d \in Addresses, h \in SmallLabels :
         call_validate_transaction(s, d, "TRANSFER", h)
    \/ call_check_approval("k1")
    \/ \E a \in Addresses : call_get_address_jurisdiction(a)
    \/ call_get_rule("r1")
    \/ call_get_active_rules
    \/ \E d \in SmallSteps : advance_ledger(d)

Spec == Init /\ [][Next]_vars

(***************************************************************************)
(* SpecRules: the rule store, the jurisdiction directory and the           *)
(* validation engine.  The approval functions and the clock, which neither *)
(* read nor write what these functions use, take no step.                  *)
(***************************************************************************)
OfferedIds == {"r1", "r2"}
OfferedRules ==
    {r \in JurisdictionRule :
        /\ r.rule_id \in OfferedIds
        /\ r.operation = "TRANSFER"
        /\ r.source_jur \in {ANY, "US"}
        /\ r.dest_jur = ANY
        /\ r.host_jur = ANY
        /\ r.required_authority \in {None, Some("a2")}
        /\ (r.source_jur = "US" => r.required_authority = None)}
OfferedLabels == {"US", "EU"}

NextRules ==
    \/ \E c \in Contracts : initialize("a1", "a2", c)
    \/ \E caller \in Addresses, rule \in OfferedRules : add_rule(caller, rule)
    \/ \E caller \in Addresses, rule \in OfferedRules : update_rule(caller, rule)
    \/ \E caller \in Addresses, rule_id \in OfferedIds : deactivate_rule(caller, rule_id)
    \/ \E caller \in Addresses, account \in Addresses, j \in OfferedLabels :
         set_address_jurisdiction(caller, account, j)
    \/ \E s \in Addresses, d \in Addresses, op \in OperationType :
         call_validate_transaction(s, d, op, "US")
    \/ \E a \in Addresses : call_get_address_jurisdiction(a)
    \/ \E rule_id \in OfferedIds : call_get_rule(rule_id)
    \/ call_get_active_rules

SpecRules == Init /\ [][NextRules]_vars

(***************************************************************************)
(* SpecList: the rule store and the active list over three rule ids, so    *)
(* that the order of the list shows.  The rules are all-"ANY" TRANSFER     *)
(* rules that allow or deny; one account is given a label, which may be    *)
(* the word "ANY", since set_address_jurisdiction takes any string.        *)
(***************************************************************************)
ListRules ==
    {r \in JurisdictionRule :
        /\ r.operation = "TRANSFER"
        /\ r.source_jur = ANY /\ r.dest_jur = ANY /\ r.host_jur = ANY
        /\ r.required_authority = None}
ListLabels == {"US", ANY}

NextList ==
    \/ \E c \in Contracts : initialize("a1", "a2", c)
    \/ \E caller \in Addresses, rule \in ListRules : add_rule(caller, rule)
    \/ \E caller \in Addresses, rule \in ListRules : update_rule(caller, rule)
    \/ \E caller \in Addresses, rule_id \in RuleIds : deactivate_rule(caller, rule_id)
    \/ \E caller \in Addresses, j \in ListLabels : set_address_jurisdiction(caller, "a1", j)
    \/ call_validate_transaction("a1", "a1", "TRANSFER", "US")
    \/ call_get_address_jurisdiction("a1")
    \/ \E rule_id \in RuleIds : call_get_rule(rule_id)
    \/ call_get_active_rules

SpecList == Init /\ [][NextList]_vars

(***************************************************************************)
(* SpecApproval: the approval ledger under a moving clock.  The other      *)
(* functions never touch a PendingApproval entry and take no step.         *)
(***************************************************************************)
NextApproval ==
    \/ \E k \in ApprovalKeys, t \in TokenIds :
         create_pending_approval(k, t, "a1", "a2", "TRANSFER")
    \/ \E authority \in Addresses, k \in ApprovalKeys : record_authorization(authority, k)
    \/ \E k \in ApprovalKeys : call_check_approval(k)
    \/ \E d \in TimeSteps : advance_ledger(d)

SpecApproval == Init /\ [][NextApproval]_vars

(***************************************************************************)
(* SpecMatch: rule_matches as a pure function.  The initial states draw a  *)
(* rule and a transaction (each jurisdiction may be any label, the word    *)
(* "ANY" included); the one action applies rule_matches to them.           *)
(***************************************************************************)
MatchRules ==
    {r \in JurisdictionRule :
        r.rule_id = "r1" /\ r.is_allowed /\ r.required_authority = None}

InitMatch ==
    /\ Admin = None
    /\ Governance = None
    /\ CarbonAssetContract = None
    /\ Rule = [id \in RuleIds |-> None]
    /\ ActiveRuleIds = None
    /\ AddressJurisdiction = [a \in Addresses |-> None]
    /\ PendingApproval = [k \in ApprovalKeys |-> None]
    /\ ledger_timestamp = 0
    /\ ticks = 0
    /\ \E rule \in MatchRules, source_jur \in RuleLabels, dest_jur \in RuleLabels,
          host_jur \in RuleLabels, operation \in OperationType :
         ret = [op |-> "input", args |-> <<rule, source_jur, dest_jur, host_jur, operation>>,
                result |-> None]

call_rule_matches ==
    /\ ret.op = "input"
    /\ Returned("rule_matches", ret.args,
                rule_matches(ret.args[1], ret.args[2], ret.args[3], ret.args[4],
                             ret.args[5]))
    /\ UNCHANGED <<storage, ledger_timestamp, ticks>>

NextMatch == call_rule_matches

SpecMatch == InitMatch /\ [][NextMatch]_vars

(***************************************************************************)
(* Properties of the validation engine (SpecRules).  After a call of       *)
(* validate_transaction the storage is the one the call read, so a verdict *)
(* is compared with the storage of the state it is recorded in.            *)
(***************************************************************************)
validated == ret.op = "validate_transaction"
\* The jurisdictions of the two accounts of the recorded call.
call_source_jur == AddressJurisdiction[ret.args[1]]
call_dest_jur == AddressJurisdiction[ret.args[2]]
\* The rule at position i of the active list matches the recorded call.
active_match(i) ==
    LET rule == Rule[get_active_rules[i]]
    IN  /\ is_some(rule)
        /\ rule_matches(unwrap(rule), unwrap(call_source_jur), unwrap(call_dest_jur),
                        ret.args[4], ret.args[3])
earliest_match ==
    CHOOSE i \in 1..Len(get_active_rules) :
        active_match(i) /\ \A j \in 1..(i - 1) : ~active_match(j)

\* C1: when both accounts have a jurisdiction and two active rules match the
\* call, the verdict is that of the earliest matching rule of the list (its
\* rule_id, its allow/deny and its authority), never that of the later one.
C1_FirstMatchPriority ==
    (validated /\ is_some(call_source_jur) /\ is_some(call_dest_jur)) =>
        \A i, j \in 1..Len(get_active_rules) :
            (i < j /\ active_match(i) /\ active_match(j)) =>
                LET first == unwrap(Rule[get_active_rules[earliest_match]])
                IN  /\ earliest_match <= i
                    /\ ret.result.rule_id = Some(first.rule_id)
                    /\ ret.result.rule_id # Some(get_active_rules[j])
                    /\ ret.result.is_compliant = first.is_allowed
                    /\ ret.result.requires_authorization =
                           (first.is_allowed /\ is_some(first.required_authority))
                    /\ ret.result.authority_address =
                           (IF first.is_allowed THEN first.required_authority ELSE None)

\* Two active rules match the call, the earlier denies and the later allows.
C1_Witness ==
    /\ validated /\ is_some(call_source_jur) /\ is_some(call_dest_jur)
    /\ Len(get_active_rules) = 2
    /\ active_match(1) /\ active_match(2)
    /\ ~unwrap(Rule[get_active_rules[1]]).is_allowed
    /\ unwrap(Rule[get_active_rules[2]]).is_allowed
    /\ ~ret.result.is_compliant

\* C3 as stated: whenever the active list is empty, every call returns
\* not-compliant, no rule_id and the error "No matching rule found" (the text
\* is compared as the code spells it, with a capital N).
C3_DefaultDeny_AsStated ==
    (validated /\ get_active_rules = << >>) =>
        /\ ~ret.result.is_compliant
        /\ ret.result.rule_id = None
        /\ ret.result.error_message = Some("No matching rule found")

\* C3, amended: whenever the active list is empty, every call returns
\* not-compliant with no rule_id; the error is "No matching rule found" when
\* both accounts have a jurisdiction, and "Jurisdiction not set for address"
\* when one of them has none.
C3_DefaultDeny ==
    (validated /\ get_active_rules = << >>) =>
        /\ ~ret.result.is_compliant
        /\ ret.result.rule_id = None
        /\ ~ret.result.requires_authorization
        /\ ret.result.authority_address = None
        /\ ret.result.error_message =
               (IF is_some(call_source_jur) /\ is_some(call_dest_jur)
                THEN Some("No matching rule found")
                ELSE Some("Jurisdiction not set for address"))

\* Both accounts have a jurisdiction, the list is empty, the call was denied.
C3_Witness ==
    /\ validated /\ get_active_rules = << >>
    /\ is_some(call_source_jur) /\ is_some(call_dest_jur)
    /\ ret.result.error_message = Some("No matching rule found")

\* C4: when the source or the destination has no jurisdiction, the verdict is
\* not-compliant, no rule_id, no authorization, no authority and the error
\* "Jurisdiction not set for address", whatever the rules are.
C4_JurisdictionNotSet ==
    (validated /\ (is_none(call_source_jur) \/ is_none(call_dest_jur))) =>
        ret.result = [is_compliant |-> FALSE, rule_id |-> None,
                      requires_authorization |-> FALSE, authority_address |-> None,
                      error_message |-> Some("Jurisdiction not set for address")]

\* The source has a jurisdiction, the destination has none, and an all-"ANY"
\* allow rule for the operation of the call is active.
C4_Witness ==
    /\ validated /\ is_some(call_source_jur) /\ is_none(call_dest_jur)
    /\ \E i \in 1..Len(get_active_rules) :
         LET rule == Rule[get_active_rules[i]]
         IN  /\ is_some(rule)
             /\ unwrap(rule).is_allowed
             /\ unwrap(rule).operation = ret.args[3]
             /\ unwrap(rule).source_jur = ANY
             /\ unwrap(rule).dest_jur = ANY
             /\ unwrap(rule).host_jur = ANY
    /\ ~ret.result.is_compliant

\* C5: every verdict is well-formed: the authority is present iff authorization
\* is required; authorization is required only on a compliant verdict whose
\* rule is allowed and names that authority; a verdict carrying a rule_id is
\* compliant iff that rule is allowed; the error is present iff not compliant.
C5_VerdictWellFormed ==
    validated =>
        LET v == ret.result
        IN  /\ is_some(v.authority_address) <=> v.requires_authorization
            /\ is_some(v.error_message) <=> ~v.is_compliant
            /\ v.is_compliant => is_some(v.rule_id)
            /\ is_some(v.rule_id) =>
                   LET rule == Rule[unwrap(v.rule_id)]
                   IN  /\ is_some(rule)
                       /\ unwrap(rule).rule_id = unwrap(v.rule_id)
                       /\ v.is_compliant = unwrap(rule).is_allowed
                       /\ v.requires_authorization =
                              (unwrap(rule).is_allowed
                               /\ is_some(unwrap(rule).required_authority))
                       /\ v.requires_authorization =>
                              v.authority_address = unwrap(rule).required_authority
            /\ is_none(v.rule_id) => ~v.requires_authorization

\* A deny rule that names an authority matched: the verdict carries its id,
\* is not compliant and asks for no authorization.
C5_Witness ==
    /\ validated /\ is_some(ret.result.rule_id)
    /\ ~unwrap(Rule[unwrap(ret.result.rule_id)]).is_allowed
    /\ is_some(unwrap(Rule[unwrap(ret.result.rule_id)]).required_authority)
    /\ ~ret.result.requires_authorization

(***************************************************************************)
(* Properties of rule_matches (SpecMatch).                                 *)
(***************************************************************************)
\* C2: a rule matches iff its operation equals the operation and each of its
\* source, destination and host fields is "ANY" or equals the corresponding
\* jurisdiction; a rule with all three fields "ANY" matches exactly the
\* transactions of its operation kind.
C2_RuleMatching ==
    ret.op = "rule_matches" =>
        LET rule == ret.args[1]
            source_jur == ret.args[2]
            dest_jur == ret.args[3]
            host_jur == ret.args[4]
            operation == ret.args[5]
        IN  /\ ret.result =
                   (/\ rule.operation = operation
                    /\ (rule.source_jur = "ANY" \/ rule.source_jur = source_jur)
                    /\ (rule.dest_jur = "ANY" \/ rule.dest_jur = dest_jur)
                    /\ (rule.host_jur = "ANY" \/ rule.host_jur = host_jur))
            /\ (rule.source_jur = "ANY" /\ rule.dest_jur = "ANY" /\ rule.host_jur = "ANY")
                   => (ret.result = (rule.operation = operation))

\* A rule whose operation, source and destination tests pass, and whose host
\* test alone fails, does not match.
C2_Witness ==
    /\ ret.op = "rule_matches"
    /\ ret.args[1].operation = ret.args[5]
    /\ ret.args[1].source_jur = ret.args[2]
    /\ ret.args[1].dest_jur = "ANY"
    /\ ret.args[1].host_jur \notin {"ANY", ret.args[4]}
    /\ ret.result = FALSE

(***************************************************************************)
(* Frame of the read-only functions (Spec).                                *)
(***************************************************************************)
ReadOnlyFunctions ==
    {"validate_transaction", "check_approval", "get_rule", "get_active_rules",
     "get_address_jurisdiction"}

\* C6: a call of validate_transaction, check_approval, get_rule,
\* get_active_rules or get_address_jurisdiction leaves the rule store, the
\* active list, the directory, the approval ledger and the principals as they
\* were, and validate_transaction called again with the same arguments
\* returns the same verdict.
C6_ReadsDoNotMutate ==
    [][/\ ret'.op \in ReadOnlyFunctions => UNCHANGED storage
       /\ (ret.op = "validate_transaction" /\ ret'.op = "validate_transaction"
           /\ ret'.args = ret.args) => ret'.result = ret.result]_vars

\* check_approval answered false for a record that is approved and expired,
\* and the record is still stored with its flag set.
C6_Witness ==
    /\ ret.op = "check_approval"
    /\ ret.result = FALSE
    /\ is_some(PendingApproval[ret.args[1]])
    /\ unwrap(PendingApproval[ret.args[1]]).approved
    /\ ledger_timestamp > unwrap(PendingApproval[ret.args[1]]).timestamp + 604800

(***************************************************************************)
(* Properties of the approval workflow.                                    *)
(***************************************************************************)
\* C7: check_approval(K) is true iff a record is stored under K, it is
\* approved, and the time is at most its timestamp + 604800; it is false for a
\* key never created, for a pending record, and from timestamp + 604801 on.
C7_CheckApproval ==
    ret.op = "check_approval" =>
        LET pending == PendingApproval[ret.args[1]]
        IN  /\ ret.result =
                   (/\ is_some(pending)
                    /\ unwrap(pending).approved
                    /\ ledger_timestamp <= unwrap(pending).timestamp + 604800)
            /\ is_none(pending) => ret.result = FALSE
            /\ (is_some(pending) /\ ~unwrap(pending).approved) => ret.result = FALSE
            /\ (is_some(pending)
                /\ ledger_timestamp >= unwrap(pending).timestamp + 604801)
                   => ret.result = FALSE

\* check_approval answered true at the last second of the window.
C7_Witness ==
    /\ ret.op = "check_approval"
    /\ ret.result = TRUE
    /\ ledger_timestamp = unwrap(PendingApproval[ret.args[1]]).timestamp + 604800

\* The step is a call of create_pending_approval on key k.
recreates(k) == ret'.op = "create_pending_approval" /\ ret'.args[1] = k

\* C8: record_authorization on K fails with InvalidApprovalKey when no record
\* is stored under K, fails with ApprovalExpired when the time is past the
\* record's timestamp + 604800 (check_approval(K) is then false), and otherwise,
\* the last second included, succeeds and sets approved; unless K is created
\* again, check_approval(K) is then true up to and including timestamp + 604800.
C8_ApprovalRoundTrip ==
    [][/\ \A k \in ApprovalKeys :
            (ret'.op = "record_authorization" /\ ret'.args[2] = k) =>
            LET stored == PendingApproval[k]
            IN  /\ is_none(stored) =>
                       ret'.result = "InvalidApprovalKey" /\ UNCHANGED PendingApproval
                /\ (is_some(stored)
                    /\ ledger_timestamp > unwrap(stored).timestamp + 604800) =>
                       /\ ret'.result = "ApprovalExpired"
                       /\ UNCHANGED PendingApproval
                       /\ ~check_approval(k)'
                /\ (is_some(stored)
                    /\ ledger_timestamp <= unwrap(stored).timestamp + 604800) =>
                       /\ ret'.result = Ok
                       /\ PendingApproval' =
                              [PendingApproval EXCEPT
                                  ![k] = Some([unwrap(stored) EXCEPT !.approved = TRUE])]
                       /\ check_approval(k)'
       /\ \A k \in ApprovalKeys :
            (/\ is_some(PendingApproval[k])
             /\ unwrap(PendingApproval[k]).approved
             /\ ~recreates(k)
             /\ ledger_timestamp' <= unwrap(PendingApproval[k]).timestamp + 604800) =>
                check_approval(k)']_vars

\* record_authorization succeeded at the last second of the window.
C8_Witness ==
    /\ ret.op = "record_authorization"
    /\ ret.result = Ok
    /\ unwrap(PendingApproval[ret.args[2]]).approved
    /\ ledger_timestamp = unwrap(PendingApproval[ret.args[2]]).timestamp + 604800

\* The window of the record stored under k has elapsed.
expired(k) ==
    /\ is_some(PendingApproval[k])
    /\ ledger_timestamp > unwrap(PendingApproval[k]).timestamp + 604800

\* C9: once the window of the record under K has elapsed, K stays expired
\* whatever is called next: check_approval(K) is false and record_authorization
\* on K fails with ApprovalExpired.
C9_ExpiredIsTerminal ==
    [][\A k \in ApprovalKeys :
          expired(k) =>
              /\ expired(k)'
              /\ ~check_approval(k)'
              /\ (ret'.op = "record_authorization" /\ ret'.args[2] = k) =>
                     ret'.result = "ApprovalExpired"]_vars

\* The step makes the record under k approved: the flag is set after it, and
\* before it there was no record, or one not approved, or another one.
becomes_approved(k) ==
    /\ is_some(PendingApproval'[k])
    /\ unwrap(PendingApproval'[k]).approved
    /\ \/ is_none(PendingApproval[k])
       \/ ~unwrap(PendingApproval[k]).approved
       \/ unwrap(PendingApproval[k]).timestamp # unwrap(PendingApproval'[k]).timestamp

\* C10 as stated: a record created at T becomes approved only by a call of
\* record_authorization on its key at a time strictly before T + 604800.
C10_ApprovedOnlyBefore_AsStated ==
    [][\A k \in ApprovalKeys :
          becomes_approved(k) =>
              /\ ret'.op = "record_authorization"
              /\ ret'.args[2] = k
              /\ is_some(PendingApproval[k])
              /\ ledger_timestamp < unwrap(PendingApproval[k]).timestamp + 604800]_vars

\* C10, amended: a record created at T becomes approved only by a successful
\* call of record_authorization on its key at a time not later than
\* T + 604800 (the last second included); no other function sets the flag.
C10_ApprovedOnlyWithinWindow ==
    [][\A k \in ApprovalKeys :
          becomes_approved(k) =>
              /\ ret'.op = "record_authorization"
              /\ ret'.args[2] = k
              /\ ret'.result = Ok
              /\ is_some(PendingApproval[k])
              /\ unwrap(PendingApproval'[k]).timestamp = unwrap(PendingApproval[k]).timestamp
              /\ ledger_timestamp <= unwrap(PendingApproval[k]).timestamp + 604800]_vars

\* A record was approved at the last second of its window, in an initialized
\* contract.
C10_Witness ==
    /\ ret.op = "record_authorization"
    /\ ret.result = Ok
    /\ ret.args[2] = "k1"
    /\ unwrap(PendingApproval["k1"]).approved
    /\ ledger_timestamp = unwrap(PendingApproval["k1"]).timestamp + 604800
    /\ is_some(Governance)

\* C11: create_pending_approval(K, ...) always succeeds and leaves under K a
\* record with approved = false, the current time as timestamp and the
\* arguments of the call, whatever was stored under K; every other key keeps
\* its record, and check_approval(K) is false right after the call.
C11_CreateOverwrites ==
    [][\A k \in ApprovalKeys :
          recreates(k) =>
              /\ ret'.result = Ok
              /\ PendingApproval'[k] =
                     Some([token_id |-> ret'.args[2], source |-> ret'.args[3],
                           destination |-> ret'.args[4], operation |-> ret'.args[5],
                           timestamp |-> ledger_timestamp, approved |-> FALSE])
              /\ \A other \in ApprovalKeys \ {k} :
                     PendingApproval'[other] = PendingApproval[other]
              /\ ledger_timestamp' = ledger_timestamp
              /\ ~check_approval(k)']_vars

\* A key was created again at a time when any earlier record under it had
\* expired, while the other key holds an approved record.
C11_Witness ==
    /\ ret.op = "create_pending_approval"
    /\ is_some(PendingApproval[ret.args[1]])
    /\ unwrap(PendingApproval[ret.args[1]]).timestamp = ledger_timestamp
    /\ ~unwrap(PendingApproval[ret.args[1]]).approved
    /\ ledger_timestamp > 604800
    /\ \E other \in ApprovalKeys \ {ret.args[1]} :
         is_some(PendingApproval[other]) /\ unwrap(PendingApproval[other]).approved

(***************************************************************************)
(* Roles.  The first argument of these functions is the address that       *)
(* require_auth() authenticates: the caller of the step.                   *)
(***************************************************************************)
AuthenticatedFunctions ==
    {"initialize", "add_rule", "update_rule", "deactivate_rule",
     "set_address_jurisdiction", "update_admin", "update_governance",
     "record_authorization"}
RuleFunctions == {"add_rule", "update_rule", "deactivate_rule"}
\* The step is a call authenticated by address a.
called_by(a) == ret'.op \in AuthenticatedFunctions /\ ret'.args[1] = a

\* C12: add_rule, update_rule and deactivate_rule called by anyone but the
\* governance principal, and set_address_jurisdiction called by anyone but the
\* administrator, fail with NotAuthorized (never with RuleAlreadyExists or
\* RuleNotFound); the rule store and the active list change only in a call by
\* the governance principal, the directory only in a call by the administrator.
C12_RoleGating ==
    [][/\ \A governance \in Addresses :
            Governance = Some(governance) =>
                /\ (ret'.op \in RuleFunctions /\ ret'.args[1] # governance) =>
                       ret'.result = "NotAuthorized"
                /\ (Rule' # Rule \/ get_active_rules' # get_active_rules) =>
                       called_by(governance)
       /\ \A admin \in Addresses :
            Admin = Some(admin) =>
                /\ (ret'.op = "set_address_jurisdiction" /\ ret'.args[1] # admin) =>
                       ret'.result = "NotAuthorized"
                /\ AddressJurisdiction' # AddressJurisdiction => called_by(admin)]_vars

(***************************************************************************)
(* Properties of rule management (SpecList).                               *)
(***************************************************************************)
\* The step is a call of function op by the governance principal.
governance_calls(op) ==
    /\ ret'.op = op
    /\ is_some(Governance)
    /\ ret'.args[1] = unwrap(Governance)

\* C13: add_rule by the governance principal fails with RuleAlreadyExists when
\* a rule with that id is stored; otherwise it stores the rule and the new
\* active list is the old one with the new id appended at the end.
C13_AddRuleAppends ==
    [][governance_calls("add_rule") =>
          LET rule == ret'.args[2]
          IN  IF is_some(Rule[rule.rule_id])
              THEN /\ ret'.result = "RuleAlreadyExists"
                   /\ UNCHANGED <<Rule, ActiveRuleIds>>
              ELSE /\ ret'.result = Ok
                   /\ Rule' = [Rule EXCEPT ![rule.rule_id] = Some(rule)]
                   /\ ActiveRuleIds' = Some(get_active_rules \o <<rule.rule_id>>)
                   /\ \A i \in 1..Len(get_active_rules) :
                          get_active_rules'[i] = get_active_rules[i]]_vars

\* add_rule succeeded and its rule is the last of three active rules.
C13_Witness ==
    /\ ret.op = "add_rule"
    /\ ret.result = Ok
    /\ Len(get_active_rules) = 3
    /\ get_active_rules[3] = ret.args[2].rule_id
    /\ Rule[ret.args[2].rule_id] = Some(ret.args[2])

\* C14: update_rule by the governance principal fails with RuleNotFound when no
\* rule with that id is stored; otherwise it replaces the stored rule, leaves
\* the active list as it was and every other stored rule untouched.
C14_UpdateRuleInPlace ==
    [][governance_calls("update_rule") =>
          LET rule == ret'.args[2]
          IN  IF is_none(Rule[rule.rule_id])
              THEN /\ ret'.result = "RuleNotFound"
                   /\ UNCHANGED <<Rule, ActiveRuleIds>>
              ELSE /\ ret'.result = Ok
                   /\ Rule'[rule.rule_id] = Some(rule)
                   /\ \A other \in RuleIds \ {rule.rule_id} : Rule'[other] = Rule[other]
                   /\ ActiveRuleIds' = ActiveRuleIds]_vars

\* update_rule succeeded on the rule that is first of three active rules.
C14_Witness ==
    /\ ret.op = "update_rule"
    /\ ret.result = Ok
    /\ Len(get_active_rules) = 3
    /\ get_active_rules[1] = ret.args[2].rule_id
    /\ Rule[ret.args[2].rule_id] = Some(ret.args[2])

\* The ids of a list, as a set.
listed(ids) == {ids[i] : i \in 1..Len(ids)}

\* C15: a successful deactivate_rule(id) leaves get_rule(id) absent and the
\* active list equal to the old one without id, the other ids in their old
\* order; an id enters the list only by a successful add_rule of it, and every
\* verdict of validate_transaction that carries a rule id carries a listed one,
\* so a deactivated id is in no verdict until it is added again;
\* deactivate_rule on an id that is not stored fails with RuleNotFound.
C15_DeactivateRemoves ==
    [][/\ governance_calls("deactivate_rule") =>
              LET rule_id == ret'.args[2]
              IN  IF is_none(Rule[rule_id])
                  THEN /\ ret'.result = "RuleNotFound"
                       /\ UNCHANGED <<Rule, ActiveRuleIds>>
                  ELSE /\ ret'.result = Ok
                       /\ Rule'[rule_id] = None
                       /\ \A other \in RuleIds \ {rule_id} : Rule'[other] = Rule[other]
                       /\ rule_id \notin listed(unwrap(ActiveRuleIds'))
                       /\ unwrap(ActiveRuleIds') =
                              SelectSeq(get_active_rules, LAMBDA x : x # rule_id)
       /\ \A id \in RuleIds :
              (id \notin listed(get_active_rules) /\ id \in listed(unwrap_or(ActiveRuleIds', << >>))) =>
                  /\ ret'.op = "add_rule"
                  /\ ret'.result = Ok
                  /\ ret'.args[2].rule_id = id
       /\ (ret'.op = "validate_transaction" /\ is_some(ret'.result.rule_id)) =>
              /\ unwrap(ret'.result.rule_id) \in listed(unwrap_or(ActiveRuleIds', << >>))
              /\ is_some(Rule'[unwrap(ret'.result.rule_id)])]_vars

\* The middle one of three active rules was deactivated: the two others are
\* listed in their old order and the rule can no longer be read.
C15_Witness ==
    /\ ret.op = "deactivate_rule"
    /\ ret.result = Ok
    /\ ret.args[2] = "r2"
    /\ get_rule("r2") = None
    /\ get_active_rules = <<"r1", "r3">>

\* C16: every id in the active rule list has a stored rule whose rule_id is
\* that id, and no id occurs in the list more than once.
C16_RuleStoreConsistent ==
    LET ids == unwrap_or(ActiveRuleIds, << >>)
    IN  /\ \A i \in 1..Len(ids) :
               /\ is_some(Rule[ids[i]])
               /\ unwrap(Rule[ids[i]]).rule_id = ids[i]
        /\ \A i, j \in 1..Len(ids) : ids[i] = ids[j] => i = j

\* Three rules were added, the last of them r1: the list holds each id once
\* and all three rules are stored.
C16_Witness ==
    /\ ret.op = "add_rule"
    /\ ret.result = Ok
    /\ get_active_rules = <<"r2", "r3", "r1">>
    /\ \A id \in RuleIds : is_some(Rule[id])

(***************************************************************************)
(* Errors leave the storage as it was (Spec).                              *)
(***************************************************************************)
MutatingFunctions == {"add_rule", "update_rule", "deactivate_rule", "set_address_jurisdiction", "record_authorization"}

\* C17: when add_rule, update_rule, deactivate_rule, set_address_jurisdiction
\* or record_authorization returns an error, the whole storage (rules, active
\* list, jurisdictions, approvals, admin, governance) is as before the call.
C17_ErrorsAreAtomic ==
    [][(ret'.op \in MutatingFunctions /\ ret'.result \in ContractError) =>
          UNCHANGED storage]_vars

\* record_authorization failed with ApprovalExpired on a record that is still
\* stored and still not approved.
C17_Witness ==
    /\ ret.op = "record_authorization"
    /\ ret.result = "ApprovalExpired"
    /\ is_some(PendingApproval[ret.args[2]])
    /\ ~unwrap(PendingApproval[ret.args[2]]).approved
    /\ ledger_timestamp > unwrap(PendingApproval[ret.args[2]]).timestamp + ApprovalWindow

(***************************************************************************)
(* The wildcard label, the rule map against the list, and the principals.  *)
(***************************************************************************)
\* C18: no account of the jurisdiction directory carries the label "ANY".
C18_NoAccountLabelledAny ==
    \A account \in Addresses : get_address_jurisdiction(account) # Some(ANY)

\* C19: every stored rule's id occurs in the active rule list.
C19_StoredRulesAreListed ==
    \A id \in RuleIds : is_some(get_rule(id)) => id \in listed(get_active_rules)

\* C20: once the contract is initialized, governance changes only in an
\* update_governance called by the current governance, the administrator only
\* in an update_admin called by the current administrator, and a call by
\* anybody else changes neither principal nor the active rule list.
C20_PrincipalsChangeByHandover ==
    [][(is_some(Admin) /\ is_some(Governance)) =>
          /\ Governance' # Governance =>
                 (ret'.op = "update_governance" /\ ret'.args[1] = unwrap(Governance))
          /\ Admin' # Admin =>
                 (ret'.op = "update_admin" /\ ret'.args[1] = unwrap(Admin))
          /\ (ret'.op \notin AuthenticatedFunctions
                 \/ ret'.args[1] \notin {unwrap(Admin), unwrap(Governance)}) =>
                 UNCHANGED <<Admin, Governance, ActiveRuleIds>>]_vars

=============================================================================
